---- MODULE Spec2Model ----
(***************************************************************************)
(* Model of part-3-implicit-feedback-recommender.ipynb: the interaction    *)
(* matrix builder create_X with its four mapper dictionaries, and the      *)
(* fuzzy title resolver (movie_finder, get_movie_index, get_movie_title).  *)
(* A dataframe is a sequence of rows (records); a dict is a function; a    *)
(* sparse matrix is a shape with a total function on its coordinates.      *)
(***************************************************************************)
EXTENDS Integers, Sequences, FiniteSets, TLC

VARIABLES
    ratings,                \* the ratings dataframe: rows [userId, movieId, rating]
    movies,                 \* the movies dataframe: rows [movieId, title]
    score,                  \* fuzzywuzzy's score of every (query, title) pair
    pc,                     \* which cells have run: "loaded", "built", "ready", "failed"
    ret,                    \* the tuple create_X returned
    X,                      \* notebook globals assigned from create_X's return
    user_mapper,
    movie_mapper,
    user_inv_mapper,
    movie_inv_mapper,
    movie_title_mapper,     \* notebook globals of the title-mapper cell
    movie_title_inv_mapper,
    call,                   \* the last helper call: its argument, locals, result, error
    related,                \* what model.similar_items returned: <<indices, scores>>
    printed                 \* what the interpretation cell printed, and its error

vars == <<ratings, movies, score, pc, ret, X, user_mapper, movie_mapper,
          user_inv_mapper, movie_inv_mapper, movie_title_mapper,
          movie_title_inv_mapper, call, related, printed>>

----------------------------------------------------------------------------
(* Bounds of the explored inputs *)

MaxUser == 2
MaxMovie == 2
MaxLen == 2
MaxCatalog == 2
MaxScore == 1

UserIds == 1..MaxUser
MovieIds == 1..MaxMovie
\* ratings: those of the worked examples (2, 3, 4) and a negative one
Strengths == {-1, 2, 3, 4}
Titles == {"Forrest Gump (1994)", "Legally Blonde (2001)"}
Queries == {"Legally Blonde", "forrest gump"}
movie_of_interest == "forrest gump"
\* similarity scores of similar_items, in hundredths (1.0 and 0.60 in the output)
SimScores == {60, 100}
Scores == 0..MaxScore

SeqsUpTo(S, n) == UNION {[1..k -> S] : k \in 0..n}

Observations == [userId : UserIds, movieId : MovieIds, rating : Strengths]

----------------------------------------------------------------------------
(* Python / numpy / pandas / scipy primitives used by create_X *)

Min(a, b) == IF a <= b THEN a ELSE b

\* df[c]: one column of a dataframe, in row order
Column(df, c) == [k \in 1..Len(df) |-> df[k][c]]

Values(col) == {col[k] : k \in DOMAIN col}

\* Series.nunique(): the number of distinct values
nunique(col) == Cardinality(Values(col))

RECURSIVE SortedSeq(_)
SortedSeq(S) ==
    IF S = {} THEN <<>>
    ELSE LET m == CHOOSE x \in S : \A y \in S : x <= y
         IN  <<m>> \o SortedSeq(S \ {m})

\* distinct values in order of first appearance (what pd.unique would give)
RECURSIVE FirstAppearance(_)
FirstAppearance(col) ==
    IF col = <<>> THEN <<>>
    ELSE LET front == FirstAppearance(SubSeq(col, 1, Len(col) - 1))
             x == col[Len(col)]
         IN  IF x \in Values(front) THEN front ELSE Append(front, x)

np_unique_unsorted(col) == FirstAppearance(col)

\* np.unique(): the distinct values, sorted ascending
np_unique(col) == SortedSeq(Values(col))

range_from_one(n) == [k \in 1..n |-> k]

\* list(range(n)): 0, 1, ..., n-1
range(n) == [k \in 1..n |-> k - 1]

\* zip(a, b): pairs up to the shorter argument
zip(a, b) == [k \in 1..Min(Len(a), Len(b)) |-> <<a[k], b[k]>>]

\* dict(pairs): a later pair with the same key overwrites an earlier one
dict(pairs) ==
    [key \in {pairs[k][1] : k \in DOMAIN pairs} |->
        LET last == CHOOSE k \in DOMAIN pairs :
                        /\ pairs[k][1] = key
                        /\ \A j \in DOMAIN pairs : pairs[j][1] = key => j <= k
        IN  pairs[last][2]]

RECURSIVE SumWhere(_, _, _, _, _)
\* the sum of data[k] over the entries k <= n stored at coordinate (i, j)
SumWhere(data, row, col, ij, n) ==
    IF n = 0 THEN 0
    ELSE SumWhere(data, row, col, ij, n - 1)
         + (IF row[n] = ij[1] /\ col[n] = ij[2] THEN data[n] ELSE 0)

RECURSIVE LastWhere(_, _, _, _, _)
LastWhere(data, row, col, ij, n) ==
    IF n = 0 THEN 0
    ELSE IF row[n] = ij[1] /\ col[n] = ij[2] THEN data[n]
         ELSE LastWhere(data, row, col, ij, n - 1)

csr_matrix_overwriting(data, row, col, shape) ==
    [shape |-> shape,
     cell  |-> [ij \in (0..(shape[1] - 1)) \X (0..(shape[2] - 1)) |->
                    LastWhere(data, row, col, ij, Len(data))]]

\* csr_matrix((data, (row, col)), shape): entries at the same coordinate are summed
csr_matrix(data, row, col, shape) ==
    [shape |-> shape,
     cell  |-> [ij \in (0..(shape[1] - 1)) \X (0..(shape[2] - 1)) |->
                    SumWhere(data, row, col, ij, Len(data))]]

----------------------------------------------------------------------------
(* create_X(df), local by local *)

create_X_N(df) == nunique(Column(df, "userId"))
create_X_M(df) == nunique(Column(df, "movieId"))

create_X_user_mapper(df) ==
    dict(zip(np_unique(Column(df, "userId")), range(create_X_N(df))))
create_X_movie_mapper(df) ==
    dict(zip(np_unique(Column(df, "movieId")), range(create_X_M(df))))

create_X_user_inv_mapper_unsorted(df) ==
    dict(zip(range(create_X_N(df)), FirstAppearance(Column(df, "userId"))))

create_X_user_inv_mapper(df) ==
    dict(zip(range(create_X_N(df)), np_unique(Column(df, "userId"))))
create_X_movie_inv_mapper(df) ==
    dict(zip(range(create_X_M(df)), np_unique(Column(df, "movieId"))))

create_X_user_index(df) ==
    LET mapper == create_X_user_mapper(df)
    IN  [k \in 1..Len(df) |-> mapper[df[k].userId]]
create_X_movie_index(df) ==
    LET mapper == create_X_movie_mapper(df)
    IN  [k \in 1..Len(df) |-> mapper[df[k].movieId]]

create_X_shape_users_first(df) == <<create_X_N(df), create_X_M(df)>>

\* shape=(M, N)
create_X_shape(df) == <<create_X_M(df), create_X_N(df)>>

create_X_X_users_first(df) ==
    csr_matrix(Column(df, "rating"), create_X_user_index(df),
               create_X_movie_index(df), create_X_shape(df))

create_X_X(df) ==
    csr_matrix(Column(df, "rating"), create_X_movie_index(df),
               create_X_user_index(df), create_X_shape(df))

\* the return statement: X, user_mapper, movie_mapper, user_inv_mapper, movie_inv_mapper
create_X(df) ==
    <<create_X_X(df), create_X_user_mapper(df), create_X_movie_mapper(df),
      create_X_user_inv_mapper(df), create_X_movie_inv_mapper(df)>>

create_X_outcomes_validating(df) ==
    IF df = <<>> \/ \E k \in DOMAIN df : df[k].rating < 0
    THEN {"InvalidInput"}
    ELSE {"ok"}

\* create_X has no raise statement and no check of its input. Only the matrix
\* constructor can refuse: an empty frame gives a 0x0 matrix or, when its
\* rating column has no numeric dtype, a ValueError of the library.
create_X_outcomes(df) ==
    IF df = <<>> THEN {"ok", "ValueError"} ELSE {"ok"}

----------------------------------------------------------------------------
(* The title resolver: fuzzywuzzy's process.extractOne and the helpers *)

\* the indices of choices whose score against the query no other choice beats
BestIndices(query, choices) ==
    {k \in DOMAIN choices :
        \A j \in DOMAIN choices : score[<<query, choices[j]>>] <= score[<<query, choices[k]>>]}

WorstIndices(query, choices) ==
    {k \in DOMAIN choices :
        \A j \in DOMAIN choices : score[<<query, choices[k]>>] <= score[<<query, choices[j]>>]}

extractOne_lowest(query, choices) ==
    IF choices = <<>> THEN <<>>
    ELSE LET k == CHOOSE i \in WorstIndices(query, choices) :
                      \A j \in WorstIndices(query, choices) : i <= j
         IN  <<choices[k], score[<<query, choices[k]>>]>>

extractOne_cutoff(query, choices) ==
    IF choices = <<>> \/ \A j \in DOMAIN choices : score[<<query, choices[j]>>] = 0
    THEN <<>>
    ELSE LET k == CHOOSE i \in BestIndices(query, choices) :
                      \A j \in BestIndices(query, choices) : i <= j
         IN  <<choices[k], score[<<query, choices[k]>>]>>

\* process.extractOne(query, choices): every choice is scored (score_cutoff=0) and
\* max() keeps the first choice of maximal score; None (here <<>>) without choices
extractOne(query, choices) ==
    IF choices = <<>> THEN <<>>
    ELSE LET k == CHOOSE i \in BestIndices(query, choices) :
                      \A j \in BestIndices(query, choices) : i <= j
         IN  <<choices[k], score[<<query, choices[k]>>]>>

NoResult == [err |-> "none", title |-> "", movie_id |-> -1, movie_idx |-> -1]

movie_finder_unchecked(title) ==
    LET closest_match == extractOne(title, Column(movies, "title"))
    IN  IF closest_match = <<>>
        THEN NoResult
        ELSE [NoResult EXCEPT !.title = closest_match[1]]

\* movie_finder(title): closest_match[0]; subscripting None is a TypeError
movie_finder(title) ==
    LET all_titles == Column(movies, "title")
        closest_match == extractOne(title, all_titles)
    IN  IF closest_match = <<>>
        THEN [NoResult EXCEPT !.err = "TypeError"]
        ELSE [NoResult EXCEPT !.title = closest_match[1]]

\* movie_title_mapper = dict(zip(movies['title'], movies['movieId']))
title_mapper(df) == dict(zip(Column(df, "title"), Column(df, "movieId")))

\* movie_title_inv_mapper = dict(zip(movies['movieId'], movies['title']))
title_inv_mapper(df) == dict(zip(Column(df, "movieId"), Column(df, "title")))

get_movie_index_defaulting(title) ==
    LET found == movie_finder(title)
    IN  IF found.err # "none" THEN found
        ELSE IF found.title \notin DOMAIN movie_title_mapper
        THEN [found EXCEPT !.err = "KeyError"]
        ELSE LET movie_id == movie_title_mapper[found.title]
             IN  [found EXCEPT !.movie_id = movie_id,
                               !.movie_idx = IF movie_id \in DOMAIN movie_mapper
                                             THEN movie_mapper[movie_id] ELSE 0]

\* get_movie_index(title): a dict lookup of a missing key is a KeyError
get_movie_index(title) ==
    LET found == movie_finder(title)
        fuzzy_title == found.title
    IN  IF found.err # "none" THEN found
        ELSE IF fuzzy_title \notin DOMAIN movie_title_mapper
        THEN [found EXCEPT !.err = "KeyError"]
        ELSE LET movie_id == movie_title_mapper[fuzzy_title]
             IN  IF movie_id \notin DOMAIN movie_mapper
                 THEN [found EXCEPT !.err = "KeyError", !.movie_id = movie_id]
                 ELSE [found EXCEPT !.movie_id = movie_id,
                                    !.movie_idx = movie_mapper[movie_id]]

get_movie_title_by_id(movie_idx) ==
    IF movie_idx \notin DOMAIN movie_title_inv_mapper
    THEN [NoResult EXCEPT !.err = "KeyError", !.movie_idx = movie_idx]
    ELSE [NoResult EXCEPT !.movie_idx = movie_idx, !.movie_id = movie_idx,
                          !.title = movie_title_inv_mapper[movie_idx]]

\* get_movie_title(movie_idx)
get_movie_title(movie_idx) ==
    IF movie_idx \notin DOMAIN movie_inv_mapper
    THEN [NoResult EXCEPT !.err = "KeyError", !.movie_idx = movie_idx]
    ELSE LET movie_id == movie_inv_mapper[movie_idx]
         IN  IF movie_id \notin DOMAIN movie_title_inv_mapper
             THEN [NoResult EXCEPT !.err = "KeyError", !.movie_idx = movie_idx,
                                   !.movie_id = movie_id]
             ELSE [NoResult EXCEPT !.movie_idx = movie_idx, !.movie_id = movie_id,
                                   !.title = movie_title_inv_mapper[movie_id]]

----------------------------------------------------------------------------
(* Inputs *)

\* one rating by user 1 for each movie of S, in ascending movie order
OnePerMovie(S) ==
    LET ms == SortedSeq(S)
    IN  [k \in 1..Len(ms) |-> [userId |-> 1, movieId |-> ms[k], rating |-> 1]]

\* catalogs: movieId is the key of movies.csv, titles may repeat
Catalogs ==
    {c \in SeqsUpTo([movieId : MovieIds, title : Titles], MaxCatalog) :
        \A i, j \in DOMAIN c : c[i].movieId = c[j].movieId => i = j}

NoCall == [op |-> "none", query |-> "", arg |-> -1, res |-> NoResult]

NoMatrix == [shape |-> <<0, 0>>, cell |-> <<>>]

NoOutput == [header |-> "", lines |-> <<>>, err |-> "none"]

Unbuilt ==
    /\ pc = "loaded"
    /\ ret = <<>>
    /\ X = NoMatrix
    /\ user_mapper = <<>>
    /\ movie_mapper = <<>>
    /\ user_inv_mapper = <<>>
    /\ movie_inv_mapper = <<>>
    /\ movie_title_mapper = <<>>
    /\ movie_title_inv_mapper = <<>>
    /\ call = NoCall
    /\ related = <<>>
    /\ printed = NoOutput

\* the notebook after the data-loading cell, with a small ratings frame
Init ==
    /\ ratings \in {OnePerMovie(S) : S \in SUBSET MovieIds}
    /\ movies \in Catalogs
    /\ score \in [Queries \X Titles -> Scores]
    /\ Unbuilt

\* the builder alone, on every ratings frame of up to MaxLen rows
InitBuilder ==
    /\ ratings \in SeqsUpTo(Observations, MaxLen)
    /\ movies = <<>>
    /\ score = [qt \in Queries \X Titles |-> 0]
    /\ Unbuilt

----------------------------------------------------------------------------
(* Cells of the notebook *)

\* X, user_mapper, movie_mapper, user_inv_mapper, movie_inv_mapper = create_X(ratings)
CreateX ==
    /\ pc = "loaded"
    /\ \E outcome \in create_X_outcomes(ratings) :
          IF outcome = "ok"
          THEN /\ ret' = create_X(ratings)
               /\ X' = ret'[1]
               /\ user_mapper' = ret'[2]
               /\ movie_mapper' = ret'[3]
               /\ user_inv_mapper' = ret'[4]
               /\ movie_inv_mapper' = ret'[5]
               /\ pc' = "built"
               /\ call' = [NoCall EXCEPT !.op = "create_X"]
          ELSE /\ pc' = "failed"
               /\ call' = [NoCall EXCEPT !.op = "create_X", !.res.err = outcome]
               /\ UNCHANGED <<ret, X, user_mapper, movie_mapper, user_inv_mapper,
                              movie_inv_mapper>>
    /\ UNCHANGED <<ratings, movies, score, movie_title_mapper, movie_title_inv_mapper,
                   related, printed>>

\* the cell that defines movie_finder, the title mappers and the two helpers
DefineTitleMappers ==
    /\ pc = "built"
    /\ pc' = "ready"
    /\ movie_title_mapper' = title_mapper(movies)
    /\ movie_title_inv_mapper' = title_inv_mapper(movies)
    /\ UNCHANGED <<ratings, movies, score, ret, X, user_mapper, movie_mapper,
                   user_inv_mapper, movie_inv_mapper, call, related, printed>>

\* the create_X cell run again: the globals are bound to a fresh, equal result
CreateXAgain ==
    /\ pc \in {"built", "ready"}
    /\ ret' = create_X(ratings)
    /\ X' = ret'[1]
    /\ user_mapper' = ret'[2]
    /\ movie_mapper' = ret'[3]
    /\ user_inv_mapper' = ret'[4]
    /\ movie_inv_mapper' = ret'[5]
    /\ call' = [NoCall EXCEPT !.op = "create_X"]
    /\ UNCHANGED <<ratings, movies, score, pc, movie_title_mapper,
                   movie_title_inv_mapper, related, printed>>

Frame_consuming ==
    /\ movies' = SubSeq(movies, 1, Len(movies) - 1)
    /\ UNCHANGED <<ratings, score, pc, ret, X, user_mapper, movie_mapper,
                   user_inv_mapper, movie_inv_mapper, movie_title_mapper,
                   movie_title_inv_mapper, related, printed>>

\* the helpers assign no global and change no argument
Frame ==
    UNCHANGED <<ratings, movies, score, pc, ret, X, user_mapper, movie_mapper,
                user_inv_mapper, movie_inv_mapper, movie_title_mapper,
                movie_title_inv_mapper, related, printed>>

MovieFinder ==
    /\ pc = "ready"
    /\ \E q \in Queries :
          call' = [op |-> "movie_finder", query |-> q, arg |-> -1,
                   res |-> movie_finder(q)]
    /\ Frame

GetMovieIndex ==
    /\ pc = "ready"
    /\ \E q \in Queries :
          call' = [op |-> "get_movie_index", query |-> q, arg |-> -1,
                   res |-> get_movie_index(q)]
    /\ Frame

GetMovieTitle ==
    /\ pc = "ready"
    /\ \E i \in (-1)..MaxMovie :
          call' = [op |-> "get_movie_title", query |-> "", arg |-> i,
                   res |-> get_movie_title(i)]
    /\ Frame

----------------------------------------------------------------------------
(* The similar_items cell and the interpretation loop *)

\* rankings of all M items: a permutation of the indices, scores non-increasing
Rankings(M) ==
    {<<ids, sims>> : ids \in {f \in [1..M -> 0..(M - 1)] :
                                 \A i, j \in 1..M : f[i] = f[j] => i = j},
                     sims \in {g \in [1..M -> SimScores] :
                                 \A i, j \in 1..M : i <= j => g[j] <= g[i]}}

\* a float used as a dict key equals the int key k exactly when its value is k
FloatKey(hundredths) ==
    IF hundredths % 100 = 0 THEN hundredths \div 100 ELSE -1

RelatedIndices(rel, k) == rel[1][k]

\* r[0] for the k-th r of "for r in related": related is the pair
\* (index array, score array), so r is first the index array, then the score array
LoopItem(rel, k) ==
    IF k = 1 THEN rel[1][1] ELSE FloatKey(rel[2][1])

RECURSIVE interpretation_loop(_, _, _)
\* for r in related: get_movie_title(r[0]), printed unless it is the found title
interpretation_loop(rel, k, out) ==
    IF k > Len(rel) THEN out
    ELSE IF rel[k] = <<>> THEN [out EXCEPT !.err = "IndexError"]
    ELSE LET got == get_movie_title(LoopItem(rel, k))
         IN  IF got.err # "none" THEN [out EXCEPT !.err = got.err]
             ELSE IF got.title # movie_finder(movie_of_interest).title
             THEN interpretation_loop(rel, k + 1,
                                      [out EXCEPT !.lines = Append(@, got.title)])
             ELSE interpretation_loop(rel, k + 1, out)

\* the data-loading cell, the scores of queries other than movie_of_interest unused
InitInterpret ==
    /\ ratings \in {OnePerMovie(S) : S \in SUBSET MovieIds}
    /\ movies \in Catalogs
    /\ score \in {t \in [Queries \X Titles -> Scores] :
                     \A qt \in Queries \X Titles : qt[1] # movie_of_interest => t[qt] = 0}
    /\ Unbuilt

\* movie_index = get_movie_index(movie_of_interest); related = model.similar_items(movie_index)
SimilarItems ==
    /\ pc = "ready"
    /\ get_movie_index(movie_of_interest).err = "none"
    /\ call' = [op |-> "get_movie_index", query |-> movie_of_interest, arg |-> -1,
                res |-> get_movie_index(movie_of_interest)]
    /\ related' \in Rankings(Cardinality(DOMAIN movie_inv_mapper))
    /\ pc' = "related"
    /\ UNCHANGED <<ratings, movies, score, ret, X, user_mapper, movie_mapper,
                   user_inv_mapper, movie_inv_mapper, movie_title_mapper,
                   movie_title_inv_mapper, printed>>

\* print(f"Because you watched {movie_finder(movie_of_interest)}..."), then the loop
Interpret ==
    /\ pc = "related"
    /\ printed' = interpretation_loop(related, 1,
                      [NoOutput EXCEPT !.header = movie_finder(movie_of_interest).title])
    /\ pc' = "interpreted"
    /\ UNCHANGED <<ratings, movies, score, ret, X, user_mapper, movie_mapper,
                   user_inv_mapper, movie_inv_mapper, movie_title_mapper,
                   movie_title_inv_mapper, call, related>>

NextInterpret ==
    \/ CreateX
    \/ DefineTitleMappers
    \/ SimilarItems
    \/ Interpret

SpecInterpret == InitInterpret /\ [][NextInterpret]_vars

Next ==
    \/ CreateX
    \/ CreateXAgain
    \/ DefineTitleMappers
    \/ MovieFinder
    \/ GetMovieIndex
    \/ GetMovieTitle

Spec == Init /\ [][Next]_vars

NextBuilder == CreateX

SpecBuilder == InitBuilder /\ [][NextBuilder]_vars

----------------------------------------------------------------------------
(* Vocabulary of the properties *)

Built == pc \in {"built", "ready"}

DistinctUsers == {ratings[k].userId : k \in DOMAIN ratings}
DistinctMovies == {ratings[k].movieId : k \in DOMAIN ratings}

\* every reordering of a dataframe's rows
Reorderings(df) ==
    {[k \in DOMAIN df |-> df[f[k]]] : f \in Permutations(DOMAIN df)}

RECURSIVE StrengthUpTo(_, _, _)
\* the sum of the ratings user u gave movie m in the first n rows
StrengthUpTo(u, m, n) ==
    IF n = 0 THEN 0
    ELSE StrengthUpTo(u, m, n - 1)
         + (IF ratings[n].userId = u /\ ratings[n].movieId = m
            THEN ratings[n].rating ELSE 0)

TotalStrength(u, m) == StrengthUpTo(u, m, Len(ratings))

NoDuplicatePairs ==
    \A i, j \in DOMAIN ratings :
        (ratings[i].userId = ratings[j].userId /\ ratings[i].movieId = ratings[j].movieId)
            => i = j

IsInverse(fwd, inv, ids) ==
    /\ \A id \in ids :
          /\ id \in DOMAIN fwd
          /\ fwd[id] \in DOMAIN inv
          /\ inv[fwd[id]] = id
    /\ \A k \in 0..(Cardinality(ids) - 1) :
          /\ k \in DOMAIN inv
          /\ inv[k] \in DOMAIN fwd
          /\ fwd[inv[k]] = k

IsDenseIndexing(fwd, ids) ==
    /\ DOMAIN fwd = ids
    /\ {fwd[id] : id \in ids} = 0..(Cardinality(ids) - 1)
    /\ \A a, b \in ids : fwd[a] = fwd[b] => a = b

IsAscending(fwd, ids) ==
    \A a, b \in ids : a < b => fwd[a] < fwd[b]

----------------------------------------------------------------------------
(* Properties of create_X, checked under SpecBuilder *)

\* C1: for every non-empty ratings frame the inverse mappers are exact inverses
\* of the forward mappers, on every observed id and on every index, for users
\* and for movies.
C1_InverseMappers ==
    (Built /\ ratings # <<>>) =>
        /\ IsInverse(user_mapper, user_inv_mapper, DistinctUsers)
        /\ IsInverse(movie_mapper, movie_inv_mapper, DistinctMovies)

C1_Witness ==
    /\ Built
    /\ Len(ratings) = 2
    /\ ratings[1].userId = 2
    /\ ratings[2].userId = 1
    /\ user_mapper[2] = 1
    /\ user_inv_mapper[1] = 2

\* C2: the indices given to users are exactly 0..N-1 and those given to movies
\* exactly 0..M-1: every observed id has an index, no index is shared, none is
\* skipped.
C2_DenseIndices ==
    (Built /\ ratings # <<>>) =>
        /\ IsDenseIndexing(user_mapper, DistinctUsers)
        /\ IsDenseIndexing(movie_mapper, DistinctMovies)

C2_Witness ==
    /\ Built
    /\ DistinctUsers = {1, 2}
    /\ DistinctMovies = {2}
    /\ {user_mapper[u] : u \in DistinctUsers} = {0, 1}
    /\ movie_mapper[2] = 0

\* C3: indices follow the ascending order of the raw ids, and every reordering
\* of the same rows gives the same matrix and the same four mappers.
C3_SortedAndOrderIndependent ==
    Built =>
        /\ IsAscending(user_mapper, DistinctUsers)
        /\ IsAscending(movie_mapper, DistinctMovies)
        /\ \A df \in Reorderings(ratings) : create_X(df) = ret

C3_Witness ==
    /\ Built
    /\ Len(ratings) = 2
    /\ ratings[1].userId = 2 /\ ratings[1].movieId = 2
    /\ ratings[2].userId = 1 /\ ratings[2].movieId = 1
    /\ user_mapper[1] = 0 /\ user_mapper[2] = 1
    /\ movie_mapper[1] = 0 /\ movie_mapper[2] = 1

C5_RowsAreUsers ==
    Built =>
        /\ X.shape = <<Cardinality(DistinctUsers), Cardinality(DistinctMovies)>>
        /\ \A u \in DistinctUsers, m \in DistinctMovies :
              /\ <<user_mapper[u], movie_mapper[m]>> \in DOMAIN X.cell
              /\ X.cell[<<user_mapper[u], movie_mapper[m]>>] = TotalStrength(u, m)

\* C6: create_X returns (X, user_mapper, user_inv_mapper, movie_mapper,
\* movie_inv_mapper), the order of its docstring.
C6_ReturnOrder ==
    Built =>
        ret = <<X, user_mapper, user_inv_mapper, movie_mapper, movie_inv_mapper>>

C8_DuplicatesSummed ==
    Built =>
        /\ \A u \in DistinctUsers, m \in DistinctMovies :
              X.cell[<<movie_mapper[m], user_mapper[u]>>] = TotalStrength(u, m)
        /\ \A df \in Reorderings(ratings) : create_X_X(df) = X

C8_Witness ==
    /\ Built
    /\ ratings = <<[userId |-> 1, movieId |-> 1, rating |-> 2],
                   [userId |-> 1, movieId |-> 1, rating |-> 3]>>
    /\ X.cell[<<0, 0>>] = 5

HasInvalidStrength == \E k \in DOMAIN ratings : ratings[k].rating < 0

----------------------------------------------------------------------------
(* Properties of the resolver, checked under Spec *)

IsBestEntry(q, k) ==
    /\ k \in DOMAIN movies
    /\ \A j \in DOMAIN movies :
          score[<<q, movies[j].title>>] <= score[<<q, movies[k].title>>]

\* C10: on a non-empty catalog, movie_finder returns a title of highest score
\* and movie_title_mapper turns it into the id of a catalog entry whose title has
\* the highest score against the query.
C10_ResolvesToBestMatch ==
    (movies # <<>>) =>
        /\ (call.op \in {"movie_finder", "get_movie_index"}) =>
              /\ call.res.err # "TypeError"
              /\ \E k \in DOMAIN movies :
                    /\ movies[k].title = call.res.title
                    /\ IsBestEntry(call.query, k)
        /\ (call.op = "get_movie_index") =>
              \E k \in DOMAIN movies :
                  /\ movies[k].movieId = call.res.movie_id
                  /\ IsBestEntry(call.query, k)

C10_Witness ==
    /\ call.op = "get_movie_index"
    /\ Len(movies) = 2
    /\ score[<<call.query, movies[1].title>>] < score[<<call.query, movies[2].title>>]
    /\ call.res.title = movies[2].title
    /\ call.res.movie_id = movies[2].movieId

\* the first catalog entry, in catalog order, of maximal score against q
FirstBestIndex(q) ==
    CHOOSE k \in DOMAIN movies :
        /\ IsBestEntry(q, k)
        /\ \A j \in DOMAIN movies : IsBestEntry(q, j) => k <= j

\* C11: when several catalog entries tie for the highest score, entries of the
\* same title with different ids included, the resolver returns the id of the
\* first of them in catalog order.
C11_FirstTieWins ==
    (call.op = "get_movie_index" /\ movies # <<>>) =>
        call.res.movie_id = movies[FirstBestIndex(call.query)].movieId

C13_NonEmptyCatalogNeverFails ==
    (movies # <<>>) =>
        /\ (call.op = "movie_finder") =>
              /\ call.res.err = "none"
              /\ call.res.title = movies[FirstBestIndex(call.query)].title
        /\ (call.op = "get_movie_index") =>
              /\ call.res.title = movies[FirstBestIndex(call.query)].title
              /\ call.res.title \in DOMAIN movie_title_mapper
              /\ call.res.movie_id = movie_title_mapper[call.res.title]
              /\ call.res.movie_id \in {movies[k].movieId : k \in DOMAIN movies}

C13_Witness ==
    /\ call.op = "get_movie_index"
    /\ movies # <<>>
    /\ \A k \in DOMAIN movies : score[<<call.query, movies[k].title>>] = 0
    /\ call.res.title = movies[1].title
    /\ call.res.movie_id \in {movies[k].movieId : k \in DOMAIN movies}

\* C15: whenever get_movie_index(q) returns an index, get_movie_title of that
\* index is the title movie_finder(q) returns.
C15_TitleOfIndexIsFoundTitle ==
    (call.op = "get_movie_index" /\ call.res.err = "none") =>
        /\ get_movie_title(call.res.movie_idx).err = "none"
        /\ get_movie_title(call.res.movie_idx).title = movie_finder(call.query).title

C15_Witness ==
    /\ call.op = "get_movie_index"
    /\ call.res.err = "none"
    /\ call.res.movie_idx = 1
    /\ Len(movies) = 2
    /\ movies[1].title # movies[2].title
    /\ get_movie_title(1).title = call.res.title

NoLookupResult ==
    /\ call.res.err = "KeyError"
    /\ call.res.title = ""

----------------------------------------------------------------------------
(* The interpretation loop, checked under SpecInterpret *)

RelatedTitlesResolve ==
    \A k \in DOMAIN related[1] : get_movie_title(RelatedIndices(related, k)).err = "none"

\* the titles of the related indices, in order, without the found title
ExpectedLines ==
    LET titles == [k \in DOMAIN related[1] |->
                      get_movie_title(RelatedIndices(related, k)).title]
        IsOther(t) == t # movie_finder(movie_of_interest).title
    IN  SelectSeq(titles, IsOther)

\* C17: the loop over the result of similar_items calls get_movie_title on each
\* related movie index and prints the title of every related movie other than
\* the movie of interest, and nothing else.
C17_LoopPrintsRelatedTitles ==
    (pc = "interpreted" /\ RelatedTitlesResolve) =>
        /\ printed.err = "none"
        /\ printed.lines = ExpectedLines

====
